---- MODULE Spec2Model ----
(***************************************************************************)
(* Fast Financial Report Analyzer (GAIBAapp.py): a Streamlit script that   *)
(* extracts the text of an uploaded PDF with two readers, bounds it with   *)
(* smart_truncate and sends it to a hosted LLM, one completion call per    *)
(* analysis kind, through a time-limited result cache.                     *)
(*                                                                         *)
(* A text is a sequence of one-character strings.  One script run (a       *)
(* Streamlit rerun, started by every widget interaction) is a walk of pc   *)
(* through the blocks of the script.                                       *)
(***************************************************************************)
EXTENDS Integers, Sequences, FiniteSets, TLC

VARIABLES
    api_key,         \* sidebar text input; "" until a key is entered
    uploaded_file,   \* file uploader widget: NoFile or a document
    pressed,         \* the analysis button clicked for this run, or "none"
    pc,              \* position of the current script run
    report_text,     \* extract_pdf_text's result in this run
    max_chars,       \* smart_truncate's budget argument
    processed_text,  \* smart_truncate's result in this run
    cache,           \* st.cache_data store of analyze_report
    calls,           \* completion calls issued to the LLM in this run
    last_call,       \* the request of the last completion call of this run
    last_response,   \* what the LLM answered to it
    ui               \* what this run has put on the page

vars == <<api_key, uploaded_file, pressed, pc, report_text, max_chars,
          processed_text, cache, calls, last_call, last_response, ui>>

----------------------------------------------------------------------------
(* Bounds of the model *)

\* pages per reader in the exhaustively enumerated documents
MaxPages == 2
\* characters of a "long" page
LongPageLen == 21000
\* longest sample text / largest budget given to smart_truncate on its own
MaxTextLen == 12
MaxBudget == 10
\* seconds that pass in one Tick
TickSeconds == 900
\* entries the result cache holds in the model
MaxEntries == 2
\* words per chunk of the chunker the specification describes
ChunkWordCount == 2

(* Program constants *)
PrimaryPageLimit == 20
PrimaryCharLimit == 50000
SecondaryPageLimit == 15
SecondaryCharLimit == 40000
HardLimit == 45000
DefaultMaxChars == 20000
CacheTTL == 1800

----------------------------------------------------------------------------
(* Text primitives *)

Min(a, b) == IF a < b THEN a ELSE b
Max(a, b) == IF a > b THEN a ELSE b

NoText == <<>>

\* characters str.strip() removes
Whitespace == {" ", "\n", "\t"}

\* not text.strip()
IsBlank(text) == \A i \in DOMAIN text : text[i] \in Whitespace

\* text[:n], n >= 0
Prefix(text, n) == SubSeq(text, 1, Min(n, Len(text)))

\* text[-n:], n >= 0; Python reads -0 as 0, so text[-0:] is the whole text
Suffix(text, n) ==
    IF n = 0 THEN text
    ELSE SubSeq(text, Max(1, Len(text) - n + 1), Len(text))

\* needle in text
Contains(text, needle) ==
    \E i \in 0..(Len(text) - Len(needle)) :
        SubSeq(text, i + 1, i + Len(needle)) = needle

\* len(text.split())
WordCount(text) ==
    Cardinality({i \in DOMAIN text :
        /\ text[i] \notin Whitespace
        /\ (i = 1 \/ text[i - 1] \in Whitespace)})

----------------------------------------------------------------------------
(* Documents: what each reader does with the uploaded file.  A reader      *)
(* either fails to open the file or opens it and gives, page by page, a    *)
(* page text or an exception.                                              *)

\* the uploader holds no file, or <<document>>
NoFile == <<>>
File(document) == <<document>>

PageKinds == {"empty", "blank", "short", "long"}
PageOutcomes == PageKinds \cup {"raise"}

\* the letter a reader's text is made of
Glyph(reader) == IF reader = "primary" THEN "p" ELSE "s"

\* page.extract_text() of a page of the given kind
PageText(reader, kind) ==
    CASE kind = "empty" -> <<>>
      [] kind = "blank" -> <<" ">>
      [] kind = "short" -> <<Glyph(reader), " ", Glyph(reader)>>
      [] kind = "long"  ->
            [i \in 1..LongPageLen |-> IF i % 2 = 1 THEN Glyph(reader) ELSE " "]

Repeat(kind, n) == [i \in 1..n |-> kind]

\* every run of at most n pages that are short, empty, blank or raising
PagesUpTo(n) == UNION {[1..k -> PageOutcomes \ {"long"}] : k \in 0..n}

Reader(opens, pages) == [opens |-> opens, pages |-> pages]

\* the primary reader: failing to open; every behaviour over at most
\* MaxPages small pages; documents at and over the page limit; documents
\* of long pages, under and over the character limits
PrimaryReaders ==
    {Reader(FALSE, <<>>)}
    \cup {Reader(TRUE, p) : p \in PagesUpTo(MaxPages)}
    \cup {Reader(TRUE, Repeat("short", n) \o <<"raise">>) :
            n \in {PrimaryPageLimit - 1, PrimaryPageLimit}}
    \cup {Reader(TRUE, p) : p \in
            {<<"long">>, <<"long", "raise">>, <<"short", "long", "raise">>,
             <<"long", "long">>, <<"long", "long", "raise">>,
             <<"long", "long", "long", "raise">>}}

SecondaryReaders ==
    {Reader(FALSE, <<>>)}
    \cup {Reader(TRUE, p) : p \in PagesUpTo(MaxPages)}
    \cup {Reader(TRUE, Repeat("short", n) \o <<"raise">>) :
            n \in {SecondaryPageLimit - 1, SecondaryPageLimit}}
    \cup {Reader(TRUE, p) : p \in
            {<<"long">>, <<"long", "raise">>, <<"short", "long">>,
             <<"long", "long", "raise">>}}

Document(p, s) == [primary |-> p, secondary |-> s]

AllDocuments ==
    {File(Document(p, s)) : p \in PrimaryReaders, s \in SecondaryReaders}

\* the documents uploaded in the runs that go on to the analysis buttons
SomeDocuments ==
    {File(Document(Reader(TRUE, p), Reader(TRUE, s))) :
        p \in {<<"raise">>, <<"blank">>, <<"short", "short">>},
        s \in {<<"raise">>, <<"short">>}}

----------------------------------------------------------------------------
(* extract_pdf_text *)

\* the pdfplumber loop from page i on: [raised, text]
RECURSIVE PrimaryLoop(_, _, _)
PrimaryLoop(pages, i, text) ==
    IF i > Len(pages) THEN [raised |-> FALSE, text |-> text]
    ELSE IF pages[i] = "raise" THEN [raised |-> TRUE, text |-> text]
    ELSE LET page_text == PageText("primary", pages[i])
             t == IF page_text # <<>> THEN text \o page_text \o <<"\n">>
                  ELSE text
         IN  IF Len(t) > PrimaryCharLimit
             THEN [raised |-> FALSE, text |-> t]
             ELSE PrimaryLoop(pages, i + 1, t)

\* the try block: pdfplumber over pdf.pages[:20]
PrimaryRead(reader) ==
    IF ~reader.opens THEN [raised |-> TRUE, text |-> NoText]
    ELSE PrimaryLoop(Prefix(reader.pages, PrimaryPageLimit), 1, NoText)

\* the PyPDF2 loop from page i on, appending to the text so far
RECURSIVE SecondaryLoop(_, _, _)
SecondaryLoop(pages, i, text) ==
    IF i > Len(pages) THEN [raised |-> FALSE, text |-> text]
    ELSE IF pages[i] = "raise" THEN [raised |-> TRUE, text |-> text]
    ELSE LET t == text \o PageText("secondary", pages[i]) \o <<"\n">>
         IN  IF Len(t) > SecondaryCharLimit
             THEN [raised |-> FALSE, text |-> t]
             ELSE SecondaryLoop(pages, i + 1, t)

\* the except block: PyPDF2 over reader.pages[:15], text carried over
SecondaryRead(reader, text) ==
    IF ~reader.opens THEN [raised |-> TRUE, text |-> text]
    ELSE SecondaryLoop(Prefix(reader.pages, SecondaryPageLimit), 1, text)

\* whether the fallback is taken after the primary read p
FallsBack(p) == p.raised

\* extract_pdf_text without the inner try/except: a failing fallback raises
extract_pdf_text_unguarded(pdf_file) ==
    LET p == PrimaryRead(pdf_file.primary)
    IN  IF ~FallsBack(p)
        THEN [raised |-> FALSE, text |-> Prefix(p.text, HardLimit)]
        ELSE LET s == SecondaryRead(pdf_file.secondary, p.text)
             IN  IF s.raised THEN [raised |-> TRUE, text |-> NoText]
                 ELSE [raised |-> FALSE, text |-> Prefix(s.text, HardLimit)]

\* extract_pdf_text with the text reset before the fallback
extract_pdf_text_reset(pdf_file) ==
    LET p == PrimaryRead(pdf_file.primary)
    IN  IF ~FallsBack(p)
        THEN [raised |-> FALSE, text |-> Prefix(p.text, HardLimit)]
        ELSE LET s == SecondaryRead(pdf_file.secondary, NoText)
             IN  IF s.raised THEN [raised |-> FALSE, text |-> NoText]
                 ELSE [raised |-> FALSE, text |-> Prefix(s.text, HardLimit)]

\* [raised, text]: whether the call raises to its caller, and what it returns
extract_pdf_text(pdf_file) ==
    LET p == PrimaryRead(pdf_file.primary)
    IN  IF ~FallsBack(p)
        THEN [raised |-> FALSE, text |-> Prefix(p.text, HardLimit)]
        ELSE LET s == SecondaryRead(pdf_file.secondary, p.text)
             IN  IF s.raised THEN [raised |-> FALSE, text |-> NoText]
                 ELSE [raised |-> FALSE, text |-> Prefix(s.text, HardLimit)]

----------------------------------------------------------------------------
(* smart_truncate *)

Marker ==
    <<"\n", "\n", "[", ".", ".", ".", " ", "M", "I", "D", "D", "L", "E", " ",
      "S", "E", "C", "T", "I", "O", "N", " ", "T", "R", "U", "N", "C", "A",
      "T", "E", "D", " ", ".", ".", ".", "]", "\n", "\n">>

\* int(max_chars * 0.4): the double 0.4 lies just above 4/10 and the
\* product is rounded to nearest, so the result is floor(4 * max_chars / 10)
KeepLen(budget) == (4 * budget) \div 10

smart_truncate(text, budget) ==
    IF Len(text) <= budget THEN text
    ELSE LET start_len == KeepLen(budget)
             end_len == KeepLen(budget)
             start == Prefix(text, start_len)
             end == Suffix(text, end_len)
         IN  start \o Marker \o end

----------------------------------------------------------------------------
(* analyze_report and its cache *)

AnalysisKinds == {"summary", "metrics", "risks"}

ApiKeys == {"k1", "k2"}

\* message.content of a completion
Contents == {<<"o", "k">>}

\* str(e) of a provider error
ErrorMessages == {<<"4", "2", "9">>}

\* what one completion call can come back with
Responses ==
    {[ok |-> TRUE, body |-> c] : c \in Contents}
    \cup {[ok |-> FALSE, body |-> m] : m \in ErrorMessages}

NoCall == [analysis_type |-> "none", text |-> NoText, api_key |-> ""]
\* no call was made, or <<response>>
NoResponse == <<>>
NoResult == [analysis_type |-> "none", value |-> NoText]

ErrorPrefix == <<"X", " ", "E", "r", "r", "o", "r", ":", " ">>

\* analyze_report without the except clause: a provider error propagates
analyze_report_unguarded(response) ==
    IF response.ok
    THEN [raised |-> FALSE, value |-> response.body]
    ELSE [raised |-> TRUE, value |-> NoText]

\* analyze_report returning the error text for every answer
analyze_report_always_error(response) ==
    [raised |-> FALSE, value |-> ErrorPrefix \o response.body]

\* the try/except around the completion call: what analyze_report does
\* with the answer of its one call
analyze_report(response) ==
    IF response.ok
    THEN [raised |-> FALSE, value |-> response.body]
    ELSE [raised |-> FALSE, value |-> ErrorPrefix \o response.body]

\* the key if the client parameter were named without the underscore
CacheKeyWithClient(client, text, analysis_type) ==
    [client |-> client, text |-> text, analysis_type |-> analysis_type]

\* st.cache_data hashes the arguments whose names do not start with "_"
CacheKey(client, text, analysis_type) ==
    [text |-> text, analysis_type |-> analysis_type]

\* what st.cache_data stores of a call that returned
Cacheable(result) == ~result.raised

\* the live entries under a key
Lookup(key) == {e \in cache : e.key = key /\ e.age < CacheTTL}

\* the cache with the entry of key written anew; by is the client of the
\* call that computed the value
Store(key, value, client) ==
    {e \in cache : e.key # key}
    \cup {[key |-> key, value |-> value, age |-> 0, by |-> client]}

\* the chunks the specification's chunker makes of a text
ChunkCount(text) == (WordCount(text) + ChunkWordCount - 1) \div ChunkWordCount

\* a call per chunk and a reduce call when there are several chunks
CompletionCallsPerChunk(text) ==
    IF ChunkCount(text) > 1 THEN ChunkCount(text) + 1 ELSE 1

\* completion calls one execution of analyze_report issues for a text
CompletionCalls(text) == 1

----------------------------------------------------------------------------
(* The script *)

BlankPage == [shown |-> {}, result |-> NoResult]

Idle == pc \in {"stopped", "finished", "crashed"}

\* every interaction reruns the script from its first line
Rerun ==
    /\ pc' = "start"
    /\ report_text' = NoText
    /\ processed_text' = NoText
    /\ calls' = 0
    /\ last_call' = NoCall
    /\ last_response' = NoResponse
    /\ ui' = BlankPage
    /\ UNCHANGED <<max_chars, cache>>

Init ==
    /\ api_key = ""
    /\ uploaded_file = NoFile
    /\ pressed = "none"
    /\ pc = "start"
    /\ report_text = NoText
    /\ max_chars = DefaultMaxChars
    /\ processed_text = NoText
    /\ cache = {}
    /\ calls = 0
    /\ last_call = NoCall
    /\ last_response = NoResponse
    /\ ui = BlankPage

\* the user types a key into the sidebar, or clears it
EnterApiKey ==
    /\ Idle
    /\ \E k \in (ApiKeys \cup {""}) \ {api_key} : api_key' = k
    /\ pressed' = "none"
    /\ UNCHANGED uploaded_file
    /\ Rerun

\* the file uploader is on the page once the run got past the key check
UploadFile ==
    /\ Idle
    /\ api_key # ""
    /\ \E f \in (SomeDocuments \cup {NoFile}) \ {uploaded_file} :
            uploaded_file' = f
    /\ pressed' = "none"
    /\ UNCHANGED api_key
    /\ Rerun

\* the buttons are on the page once a run got to them
PressButton ==
    /\ pc = "finished"
    /\ uploaded_file # NoFile
    /\ \E k \in AnalysisKinds : pressed' = k
    /\ UNCHANGED <<api_key, uploaded_file>>
    /\ Rerun

\* time passes; the entries age and those past their ttl are dropped
Tick ==
    /\ cache # {}
    /\ cache' = {[e EXCEPT !.age = e.age + TickSeconds] :
                    e \in {x \in cache : x.age + TickSeconds < CacheTTL}}
    /\ UNCHANGED <<api_key, uploaded_file, pressed, pc, report_text, max_chars,
                   processed_text, calls, last_call, last_response, ui>>

\* lines 15-19
CheckKey ==
    /\ pc = "start"
    /\ IF api_key = ""
       THEN /\ ui' = [ui EXCEPT !.shown = @ \cup {"need_key"}]
            /\ pc' = "stopped"
       ELSE /\ pc' = "upload"
            /\ UNCHANGED ui
    /\ UNCHANGED <<api_key, uploaded_file, pressed, report_text, max_chars,
                   processed_text, cache, calls, last_call, last_response>>

\* lines 123-132
ExtractText ==
    /\ pc = "upload"
    /\ IF uploaded_file = NoFile
       THEN /\ pc' = "finished"
            /\ UNCHANGED report_text
       ELSE LET extracted == extract_pdf_text(uploaded_file[1])
            IN  IF extracted.raised
                THEN /\ pc' = "crashed"
                     /\ UNCHANGED report_text
                ELSE /\ report_text' = extracted.text
                     /\ pc' = "guard"
    /\ UNCHANGED <<api_key, uploaded_file, pressed, max_chars, processed_text,
                   cache, calls, last_call, last_response, ui>>

\* the guard without st.stop()
CheckExtractedNoStop ==
    /\ pc = "guard"
    /\ IF IsBlank(report_text)
       THEN ui' = [ui EXCEPT !.shown = @ \cup {"extract_error"}]
       ELSE ui' = [ui EXCEPT !.shown = @ \cup {"extracted"}]
    /\ pc' = "truncate"
    /\ UNCHANGED <<api_key, uploaded_file, pressed, report_text, max_chars,
                   processed_text, cache, calls, last_call, last_response>>

\* lines 134-140
CheckExtracted ==
    /\ pc = "guard"
    /\ IF IsBlank(report_text)
       THEN /\ ui' = [ui EXCEPT !.shown = @ \cup {"extract_error"}]
            /\ pc' = "stopped"
       ELSE /\ ui' = [ui EXCEPT !.shown = @ \cup {"extracted"}]
            /\ pc' = "truncate"
    /\ UNCHANGED <<api_key, uploaded_file, pressed, report_text, max_chars,
                   processed_text, cache, calls, last_call, last_response>>

\* line 143
Truncate ==
    /\ pc = "truncate"
    /\ processed_text' = smart_truncate(report_text, max_chars)
    /\ pc' = "buttons"
    /\ UNCHANGED <<api_key, uploaded_file, pressed, report_text, max_chars,
                   cache, calls, last_call, last_response, ui>>

\* lines 146-186 when no button was clicked
NoButton ==
    /\ pc = "buttons"
    /\ pressed = "none"
    /\ pc' = "finished"
    /\ UNCHANGED <<api_key, uploaded_file, pressed, report_text, max_chars,
                   processed_text, cache, calls, last_call, last_response, ui>>

\* a clicked button whose call st.cache_data answers from its store
CachedAnalysis ==
    /\ pc = "buttons"
    /\ pressed # "none"
    /\ \E e \in Lookup(CacheKey(api_key, processed_text, pressed)) :
            ui' = [ui EXCEPT !.result =
                        [analysis_type |-> pressed, value |-> e.value]]
    /\ pc' = "finished"
    /\ UNCHANGED <<api_key, uploaded_file, pressed, report_text, max_chars,
                   processed_text, cache, calls, last_call, last_response>>

\* a clicked button whose call runs analyze_report: one completion call,
\* whose answer or error text is stored and shown
AnalyzeReport ==
    /\ pc = "buttons"
    /\ pressed # "none"
    /\ LET key == CacheKey(api_key, processed_text, pressed)
       IN  /\ Lookup(key) = {}
           /\ Cardinality({e \in cache : e.key # key}) < MaxEntries
           /\ \E response \in Responses :
                LET result == analyze_report(response)
                IN  /\ calls' = calls + CompletionCalls(processed_text)
                    /\ last_call' = [analysis_type |-> pressed,
                                     text |-> processed_text,
                                     api_key |-> api_key]
                    /\ last_response' = <<response>>
                    /\ IF Cacheable(result)
                       THEN cache' = Store(key, result.value, api_key)
                       ELSE UNCHANGED cache
                    /\ IF result.raised
                       THEN /\ pc' = "crashed"
                            /\ UNCHANGED ui
                       ELSE /\ pc' = "finished"
                            /\ ui' = [ui EXCEPT !.result =
                                        [analysis_type |-> pressed,
                                         value |-> result.value]]
    /\ UNCHANGED <<api_key, uploaded_file, pressed, report_text, max_chars,
                   processed_text>>

Next ==
    \/ EnterApiKey
    \/ UploadFile
    \/ PressButton
    \/ Tick
    \/ CheckKey
    \/ ExtractText
    \/ CheckExtracted
    \/ Truncate
    \/ NoButton
    \/ CachedAnalysis
    \/ AnalyzeReport

Spec == Init /\ [][Next]_vars

----------------------------------------------------------------------------
(* Extraction over every document *)

ExtractInit ==
    /\ api_key = "k1"
    /\ uploaded_file \in AllDocuments
    /\ pressed = "none"
    /\ pc = "start"
    /\ report_text = NoText
    /\ max_chars = DefaultMaxChars
    /\ processed_text = NoText
    /\ cache = {}
    /\ calls = 0
    /\ last_call = NoCall
    /\ last_response = NoResponse
    /\ ui = BlankPage

ExtractNext ==
    \/ CheckKey
    \/ ExtractText
    \/ CheckExtracted
    \/ Truncate
    \/ NoButton

ExtractSpec == ExtractInit /\ [][ExtractNext]_vars

----------------------------------------------------------------------------
(* smart_truncate over every small text and budget *)

Letters == <<"a", "b", "c", "d", "e", "f", "g", "h", "i", "j", "k", "l", "m">>

Sample(n) == [i \in 1..n |-> Letters[((i - 1) % Len(Letters)) + 1]]

TruncateInit ==
    /\ api_key = "k1"
    /\ uploaded_file = NoFile
    /\ pressed = "none"
    /\ pc = "truncate"
    /\ report_text \in {Sample(n) : n \in 0..MaxTextLen}
    /\ max_chars \in 0..MaxBudget
    /\ processed_text = NoText
    /\ cache = {}
    /\ calls = 0
    /\ last_call = NoCall
    /\ last_response = NoResponse
    /\ ui = BlankPage

TruncateNext ==
    \/ Truncate
    \/ NoButton

TruncateSpec == TruncateInit /\ [][TruncateNext]_vars

----------------------------------------------------------------------------
(* Properties of the pipeline (Spec) *)

HasFile == uploaded_file # NoFile

AfterGuard == pc \notin {"start", "upload", "guard"}

\* C1: no completion call is issued and smart_truncate is not run on an
\* extracted text that is empty or whitespace-only; the run that extracted
\* it shows the extraction error and stops there.
C1_NoAnalysisOfBlankText ==
    /\ calls > 0 => ~IsBlank(report_text)
    /\ processed_text # NoText => ~IsBlank(report_text)
    /\ (HasFile /\ api_key # "" /\ AfterGuard /\ IsBlank(report_text)) =>
            /\ pc = "stopped"
            /\ "extract_error" \in ui.shown
            /\ "extracted" \notin ui.shown
            /\ ui.result = NoResult
            /\ last_call = NoCall

C1_Witness ==
    /\ pc = "stopped"
    /\ HasFile
    /\ "extract_error" \in ui.shown
    /\ report_text # NoText
    /\ IsBlank(report_text)

\* C6: a completion call that fails does not abort the run; the run ends
\* showing, for the kind asked, the error prefix followed by the provider's
\* error text, after exactly one call.
C6_ProviderErrorIsReturned ==
    [][(last_response = NoResponse /\ last_response' # NoResponse
            /\ ~last_response'[1].ok) =>
        /\ calls = 0
        /\ calls' = 1
        /\ pc' = "finished"
        /\ ui'.result.analysis_type = pressed
        /\ ui'.result.value = ErrorPrefix \o last_response'[1].body
        /\ Contains(ui'.result.value, last_response'[1].body)]_vars

C6_Witness ==
    /\ pc = "finished"
    /\ calls = 1
    /\ last_response # NoResponse
    /\ ~last_response[1].ok
    /\ Contains(ui.result.value, last_response[1].body)

C8_OneCallOutputReturned ==
    [][(calls' # calls /\ calls' # 0) =>
        /\ pressed \in AnalysisKinds
        /\ calls = 0
        /\ calls' = 1
        /\ last_call' = [analysis_type |-> pressed, text |-> processed_text,
                         api_key |-> api_key]
        /\ Len(last_response') = 1
        /\ last_response'[1].ok =>
                ui'.result = [analysis_type |-> pressed,
                              value |-> last_response'[1].body]]_vars

C8_Witness ==
    /\ pc = "finished"
    /\ pressed = "metrics"
    /\ calls = 1
    /\ last_response # NoResponse
    /\ last_response[1].ok
    /\ ui.result = [analysis_type |-> "metrics", value |-> last_response[1].body]

\* the stored results of a text and kind that are within their ttl
Live(text, analysis_type) ==
    {e \in cache : /\ e.key.text = text
                   /\ e.key.analysis_type = analysis_type
                   /\ e.age < CacheTTL}

\* C10: a button run that finds a result of the same text and kind stored
\* less than the ttl ago issues no completion call and shows that stored
\* string, whichever client stored it and whether it is an error string;
\* a run that finds none stores what it shows, error strings included.
C10_CachedByTextAndKind ==
    [][(pc = "buttons" /\ pressed # "none" /\ pc' # "buttons") =>
        /\ Live(processed_text, pressed) # {} =>
                /\ calls' = 0
                /\ cache' = cache
                /\ \E e \in Live(processed_text, pressed) :
                        ui'.result = [analysis_type |-> pressed,
                                      value |-> e.value]
        /\ Live(processed_text, pressed) = {} =>
                /\ calls' = 1
                /\ \E e \in cache' :
                        /\ e.key.text = processed_text
                        /\ e.key.analysis_type = pressed
                        /\ e.age = 0
                        /\ ui'.result = [analysis_type |-> pressed,
                                         value |-> e.value]]_vars

C10_Witness ==
    /\ pc = "finished"
    /\ pressed # "none"
    /\ calls = 0
    /\ \E e \in Live(processed_text, pressed) :
            /\ e.age > 0
            /\ e.by # api_key
            /\ Contains(e.value, ErrorPrefix)
            /\ ui.result = [analysis_type |-> pressed, value |-> e.value]

----------------------------------------------------------------------------
(* Properties of smart_truncate (TruncateSpec) *)

Truncated == pc \in {"buttons", "finished"}

\* C2: the text smart_truncate returns is no longer than its budget.
C2_WithinBudget == Truncated => Len(processed_text) <= max_chars

\* C3: of a text longer than the budget B, smart_truncate returns the first
\* floor(0.4 B) characters, the marker, and the last floor(0.4 B)
\* characters, and nothing else.
C3_HeadMarkerTail ==
    (Truncated /\ Len(report_text) > max_chars) =>
        LET keep == (4 * max_chars) \div 10
            n == Len(report_text)
        IN  processed_text =
                SubSeq(report_text, 1, keep) \o Marker
                    \o SubSeq(report_text, n - keep + 1, n)

----------------------------------------------------------------------------
(* Properties of extract_pdf_text (ExtractSpec) *)

Extracted == pc \notin {"start", "upload"}

\* the primary read of the uploaded file
PrimaryOutcome == PrimaryRead(uploaded_file[1].primary)

\* the fallback read of the uploaded file, as it goes after the primary read
SecondaryOutcome ==
    SecondaryRead(uploaded_file[1].secondary, PrimaryOutcome.text)

\* C4: when the primary reader raises or yields only whitespace, the result
\* is that of the fallback to the secondary reader.
C4_FallsBackOnRaiseOrBlank ==
    (Extracted /\ (PrimaryOutcome.raised \/ IsBlank(PrimaryOutcome.text))) =>
        report_text = IF SecondaryOutcome.raised THEN NoText
                      ELSE Prefix(SecondaryOutcome.text, HardLimit)

\* a reader that gives no text: it fails to open, or each of its pages
\* raises or is empty or whitespace
GivesNoText(reader) ==
    \A i \in DOMAIN reader.pages :
        reader.pages[i] \in {"empty", "blank", "raise"}

BothFail == PrimaryOutcome.raised /\ SecondaryOutcome.raised

BothEmpty ==
    /\ GivesNoText(uploaded_file[1].primary)
    /\ GivesNoText(uploaded_file[1].secondary)

\* C5: when both readers fail or both give no text, extract_pdf_text does
\* not raise; it returns a text empty to the caller's guard (the empty
\* string when both fail), and the run stops at the guard with the
\* extraction error shown and no success shown.
C5_BothFailStopsRun ==
    (Extracted /\ (BothFail \/ BothEmpty)) =>
        /\ pc \in {"guard", "stopped"}
        /\ IsBlank(report_text)
        /\ BothFail => report_text = NoText
        /\ pc = "stopped" =>
                /\ "extract_error" \in ui.shown
                /\ "extracted" \notin ui.shown
                /\ processed_text = NoText

C5_Witness ==
    /\ pc = "stopped"
    /\ BothFail
    /\ PrimaryOutcome.text # NoText
    /\ report_text = NoText
    /\ "extract_error" \in ui.shown

\* the texts of the first n pages, each with its newline
RECURSIVE JoinPages(_, _)
JoinPages(pages, n) ==
    IF n = 0 THEN NoText
    ELSE JoinPages(pages, n - 1) \o PageText("secondary", pages[n]) \o <<"\n">>

\* the pages the secondary reader is asked for
SecondaryPages == Prefix(uploaded_file[1].secondary.pages, SecondaryPageLimit)

\* the pages before the first that raises
ReadablePages ==
    LET raising == {i \in DOMAIN SecondaryPages : SecondaryPages[i] = "raise"}
    IN  IF raising = {} THEN Len(SecondaryPages)
        ELSE (CHOOSE i \in raising : \A j \in raising : i <= j) - 1

\* the page counts after which the text is over the secondary limit
OverLimit(base) ==
    {n \in 1..ReadablePages :
        Len(base) + Len(JoinPages(SecondaryPages, n)) > SecondaryCharLimit}

\* the pages the secondary reader adds to base
PagesAdded(base) ==
    IF OverLimit(base) = {} THEN ReadablePages
    ELSE CHOOSE n \in OverLimit(base) : \A m \in OverLimit(base) : n <= m

\* the secondary reader raises before its loop ends
SecondaryRaises(base) ==
    \/ ~uploaded_file[1].secondary.opens
    \/ (ReadablePages < Len(SecondaryPages) /\ OverLimit(base) = {})

\* C9: when the primary reader raises after yielding text, the result is
\* that partial text followed by the secondary reader's page texts, cut to
\* the hard limit; it is empty when the secondary reader raises as well.
C9_PartialTextKept ==
    (Extracted /\ PrimaryOutcome.raised /\ PrimaryOutcome.text # NoText) =>
        report_text =
            IF SecondaryRaises(PrimaryOutcome.text) THEN NoText
            ELSE Prefix(PrimaryOutcome.text
                            \o JoinPages(SecondaryPages,
                                         PagesAdded(PrimaryOutcome.text)),
                        HardLimit)

C9_Witness ==
    /\ pc = "guard"
    /\ PrimaryOutcome.raised
    /\ PrimaryOutcome.text # NoText
    /\ ~SecondaryRaises(PrimaryOutcome.text)
    /\ PagesAdded(PrimaryOutcome.text) > 0
    /\ Len(report_text) = HardLimit
    /\ report_text[HardLimit] \in {"s", " "}

====
